---------------------------- MODULE Spec2Model ----------------------------
(***************************************************************************)
(* A model of the tool-augmented streaming chat pipeline of PLG_AI:        *)
(*   - ChatService.stream_chat   (src/llm-api/services/chat_service.py)    *)
(*   - LLMEngine.chat_stream     (src/llm-api/core/llm_engine.py)          *)
(*   - the module-level MCP servers mcp_io / mcp_internet and the          *)
(*     logged_call_tool wrapper installed on them                          *)
(*   - MCPService.get_available_tools / process_with_mcp                   *)
(*                               (src/llm-api/services/mcp_service.py)     *)
(*                                                                         *)
(* The process runs on one asyncio event loop: code between two awaits (or *)
(* yields) is atomic, and requests interleave at the awaits.  Every action *)
(* below is the code from one suspension point to the next.  The           *)
(* completion backend, the agents runner and the tool provider are the     *)
(* environment: their replies are drawn with \E from small sets.            *)
(***************************************************************************)
EXTENDS Naturals, Integers, Sequences, FiniteSets, TLC

(***************************************************************************)
(* Bounds of the model.                                                    *)
(***************************************************************************)
\* requests the process handles during one run of the model
MaxRequests == 3
\* data chunks one stream (agent events or upstream lines) carries
MaxChunks == 1
\* tool calls the runner makes for one request
MaxToolCalls == 1

\* requests the process handles during one run with two requests in flight
MaxConcurrentRequests == 2

\* request slots: at most two requests are in flight at the same time
Slots == {1, 2}

\* the module-level MCP server objects (agent_service.py:34-52)
Servers == {"mcp_io", "mcp_internet"}

Terminal == {"done", "error"}

VARIABLES
    \* ---- ChatService.stream_chat, one generator per slot ----
    pc,              \* where the generator of the slot is suspended
    messages,        \* the request's history: "empty", "no_user" or "user"
    frames,          \* the frames stream_chat has yielded to the caller
    out,             \* the frames LLMEngine.chat_stream has yielded
    agent,           \* selected_agent: "none", "io", "internet", "general"
    agentErr,        \* the exception the agent route raised, or "none"
    direct,          \* whether engine.chat_stream was called for the request
    sid,             \* session_id of the request (routes.py:38), one per slot
    handled,         \* requests started so far
    limit,           \* requests this run of the model handles
    \* ---- the shared MCP server objects ----
    session,         \* server.session: "None", "Connected" or "Stale"
    wrappers,        \* logged_call_tool layers installed on server.call_tool
    \* ---- one call_tool invocation of a slot ----
    layer,           \* wrapper layer the invocation is executing (0: original)
    ops,             \* operations the invocation has performed, in order
    startState,      \* server.session when the invocation started
    conn,            \* connection of the in-flight call: "none", "intact",
                     \* "closed", "replaced"
    lastCall,        \* outcome of the last invocation: "none", "ok", "failed"
    toolCalls,       \* invocations the runner has made for this request
    \* ---- LLMEngine ----
    active_sessions  \* LLMEngine.active_sessions (its key set)

chatVars == <<pc, messages, frames, out, agent, agentErr, direct, sid, handled, limit, session, wrappers,
              layer, ops, startState, conn, lastCall, toolCalls, active_sessions>>

Last(s) == s[Len(s)]

Count(s, S) == Cardinality({i \in 1..Len(s) : s[i] \in S})

(***************************************************************************)
(* agent_service.py:55-87: io_agent has mcp_io, internet_agent has         *)
(* mcp_internet; chat_service.py reads getattr(agent, "mcp_servers", []),  *)
(* so the general agent has no server.                                     *)
(***************************************************************************)
ServerOf(a) ==
    IF a = "io" THEN "mcp_io"
    ELSE IF a = "internet" THEN "mcp_internet"
    ELSE "no_server"

(***************************************************************************)
(* chat_service.py:55-87.  The triage run either raises, returns text that *)
(* json.loads / TriageAgentResponse reject, or returns a decision.         *)
(***************************************************************************)
TriageOutputs == {"raise", "malformed", "io", "internet", "other", "no_handoff", "hang"}

SelectAgent(t) ==
    IF t = "io" THEN "io"
    ELSE IF t = "internet" THEN "internet"
    ELSE "general"

(***************************************************************************)
(* MCPService (mcp_service.py): the module-level mcp_service object and    *)
(* one process_with_mcp run at a time.                                     *)
(***************************************************************************)
\* process_with_mcp runs during one run of the model
MaxRuns == 2

\* mcp_service.py:304
max_iterations == 5

\* the tool lists the provider may serve
ToolLists == {{}, {"add"}, {"add", "sub"}}

VARIABLES
    mpc,              \* where process_with_mcp is suspended
    runs,             \* process_with_mcp runs started so far
    tools_cache,      \* MCPService._tools_cache: <<>> for None, <<list>> for a list
    user_info_cache,  \* MCPService._user_info_cache: "None" or "info"
    providerTools,    \* the tool list the provider serves now
    tools,            \* the local `tools` of the run
    queried,          \* whether the run's session has sent list_tools
    decisionLog,      \* what call_llm_for_tools returned, call by call
    work_log,         \* the local `work_log`
    iteration,        \* the local `iteration`
    current,          \* the decision the loop is executing
    payload,          \* the text of the backend's latest decision, until it is acted on
    sent,             \* the user message of the latest decision request
    lastOutcome,      \* what session.call_tool did in the latest tool call
    result            \* what the run returned: nothing yet, None, or the final
                      \* answer-generation request

mcpVars == <<mpc, runs, tools_cache, user_info_cache, providerTools, tools, queried,
             decisionLog, work_log, iteration, current, payload, sent, lastOutcome, result>>

(***************************************************************************)
(* LLMEngine.chat_stream (llm_engine.py:111-183) on its own, with the      *)
(* upstream body line by line and the frames with their content.           *)
(***************************************************************************)
\* lines of one upstream body
MaxLines == 3

VARIABLES
    spc,        \* where the chat_stream call is suspended
    history,    \* its `messages` argument: "empty" or "some"
    transport,  \* what the engine asked of the backend and what came of it
    body,       \* the lines of the response body not read yet
    read,       \* the lines read so far
    yielded     \* the frames yielded so far

engineVars == <<spc, history, transport, body, read, yielded>>

(***************************************************************************)
(* ConversationManager.prepare_conversation (utils/conversation.py) applied *)
(* to a history and then to its own result.                                *)
(***************************************************************************)
\* messages of a history
MaxHistory == 3

\* the largest max_context_tokens - response_reserve_tokens tried
MaxBudget == 4

VARIABLES
    cpc,                 \* "idle", "received", "prepared" or "prepared_again"
    conversation,        \* the history received
    max_allowed_tokens,  \* max_context_tokens - response_reserve_tokens
    prepared,            \* prepare_conversation(conversation)
    prepared_again       \* prepare_conversation(prepared)

convVars == <<cpc, conversation, max_allowed_tokens, prepared, prepared_again>>

(***************************************************************************)
(* The calls of LLMEngine.chat_stream and get_structured_completion in     *)
(* flight at the same time, each with the session id its caller gave it,   *)
(* and LLMEngine.active_sessions (declared above) as they register and     *)
(* finish.                                                                 *)
(***************************************************************************)
\* calls of the engine in one run of the model
MaxCalls == 3

VARIABLES
    calls   \* for each call: its kind, its session_id and where it is

sessionVars == <<calls>>

vars == <<chatVars, mcpVars, engineVars, convVars, sessionVars>>

otherThanChat == <<mcpVars, engineVars, convVars, sessionVars>>

otherThanMcp == <<chatVars, engineVars, convVars, sessionVars>>

otherThanEngine == <<chatVars, mcpVars, convVars, sessionVars>>

otherThanConv == <<chatVars, mcpVars, engineVars, sessionVars>>

\* everything but active_sessions and the calls
otherThanSessions ==
    <<pc, messages, frames, out, agent, agentErr, direct, sid, handled, limit, session,
      wrappers, layer, ops, startState, conn, lastCall, toolCalls,
      mcpVars, engineVars, convVars>>

NoCall == [kind |-> "none", session_id |-> "none", at |-> "idle"]

SessionsInit == calls = [c \in 1..MaxCalls |-> NoCall]

ConvInit ==
    /\ cpc = "idle"
    /\ conversation = <<>>
    /\ max_allowed_tokens = MaxBudget
    /\ prepared = <<>>
    /\ prepared_again = <<>>

EngineInit ==
    /\ spc = "idle"
    /\ history = "some"
    /\ transport = <<>>
    /\ body = <<>>
    /\ read = <<>>
    /\ yielded = <<>>

NoDecision == [name |-> "none", args |-> <<>>]

\* the user message of a request to the backend (mcp_service.py:311-318):
\* the raw prompt, or the question with the work log rendered line by line,
\* the current answer and a closing instruction
UserMessage(raw, steps, cur, closing) ==
    [raw |-> raw, steps |-> steps, current |-> cur, closing |-> closing]

NoMessage == UserMessage(TRUE, <<>>, "", "none")

NoResult == [kind |-> "running", system |-> "none", user |-> NoMessage]

ReturnsNone == [kind |-> "None", system |-> "none", user |-> NoMessage]

McpInit ==
    /\ mpc = "idle"
    /\ runs = 0
    /\ tools_cache = <<>>
    /\ user_info_cache = "None"
    /\ providerTools = {"add"}
    /\ tools = {}
    /\ queried = FALSE
    /\ decisionLog = <<>>
    /\ work_log = <<>>
    /\ iteration = 0
    /\ current = NoDecision
    /\ payload = "none"
    /\ sent = NoMessage
    /\ lastOutcome = "none"
    /\ result = NoResult

InitChat(n) ==
    /\ McpInit
    /\ EngineInit
    /\ ConvInit
    /\ SessionsInit
    /\ limit = n
    /\ pc = [r \in Slots |-> "idle"]
    /\ messages = [r \in Slots |-> "empty"]
    /\ frames = [r \in Slots |-> <<>>]
    /\ out = [r \in Slots |-> <<>>]
    /\ agent = [r \in Slots |-> "none"]
    /\ agentErr = [r \in Slots |-> "none"]
    /\ direct = [r \in Slots |-> FALSE]
    /\ sid = [r \in Slots |-> IF r = 1 THEN "sA" ELSE "sB"]
    /\ handled = 0
    /\ session = [s \in Servers |-> "None"]
    /\ wrappers = [s \in Servers |-> 0]
    /\ layer = [r \in Slots |-> 0]
    /\ ops = [r \in Slots |-> <<>>]
    /\ startState = [r \in Slots |-> "None"]
    /\ conn = [r \in Slots |-> "none"]
    /\ lastCall = [r \in Slots |-> "none"]
    /\ toolCalls = [r \in Slots |-> 0]
    /\ active_sessions = {}

Init == InitChat(MaxRequests)

InitConcurrent == InitChat(MaxConcurrentRequests)

(***************************************************************************)
(* A request arrives (routes.py:38-47) and stream_chat runs to its first   *)
(* await: extract_latest_user_message (chat_service.py:48-50, 278-291),    *)
(* then either the triage run (line 55) or the direct route (line 265).    *)
(* A slot whose generator has finished serves the next request.            *)
(***************************************************************************)
MessageKinds == {"empty", "no_user", "user"}

extract_latest_user_message(m) == m = "user"

Start(r) ==
    /\ pc[r] \in {"idle", "done"}
    /\ handled < limit
    /\ handled' = handled + 1
    /\ \E m \in MessageKinds :
          /\ messages' = [messages EXCEPT ![r] = m]
          /\ pc' = [pc EXCEPT ![r] =
                      IF extract_latest_user_message(m) THEN "triage" ELSE "direct"]
    /\ frames' = [frames EXCEPT ![r] = <<>>]
    /\ out' = [out EXCEPT ![r] = <<>>]
    /\ agent' = [agent EXCEPT ![r] = "none"]
    /\ agentErr' = [agentErr EXCEPT ![r] = "none"]
    /\ direct' = [direct EXCEPT ![r] = FALSE]
    /\ layer' = [layer EXCEPT ![r] = 0]
    /\ ops' = [ops EXCEPT ![r] = <<>>]
    /\ startState' = [startState EXCEPT ![r] = "None"]
    /\ conn' = [conn EXCEPT ![r] = "none"]
    /\ lastCall' = [lastCall EXCEPT ![r] = "none"]
    /\ toolCalls' = [toolCalls EXCEPT ![r] = 0]
    /\ UNCHANGED <<sid, limit, session, wrappers, active_sessions>>
    /\ UNCHANGED otherThanChat

(***************************************************************************)
(* chat_service.py:257-262: the handler of the inner try.  It logs and     *)
(* falls through to the direct route at line 265; it yields nothing.       *)
(* The result is the generator's next position and its frames so far.      *)
(***************************************************************************)
FallThroughAsError(fr) == [pc |-> "done", frames |-> Append(fr, "error")]

FallThrough(fr) == [pc |-> "direct", frames |-> fr]

\* the agent route of slot r raises exception e (caught at line 257)
AgentRaises(r, e) ==
    /\ pc' = [pc EXCEPT ![r] = FallThrough(frames[r]).pc]
    /\ frames' = [frames EXCEPT ![r] = FallThrough(frames[r]).frames]
    /\ agentErr' = [agentErr EXCEPT ![r] = e]

(***************************************************************************)
(* chat_service.py:55-89: `await Runner().run(triage_agent, ...)` returns. *)
(* No deadline guards the await: a run that never returns leaves the       *)
(* generator suspended at line 55 ("hung").                                *)
(***************************************************************************)
Triage(r) ==
    /\ pc[r] = "triage"
    /\ \E t \in TriageOutputs :
          \/ /\ t = "hang"
             /\ pc' = [pc EXCEPT ![r] = "hung"]
             /\ UNCHANGED <<frames, agentErr, agent>>
          \/ /\ t = "raise"
             /\ AgentRaises(r, "triage")
             /\ UNCHANGED agent
          \/ /\ t = "malformed"
             /\ AgentRaises(r, "malformed")
             /\ UNCHANGED agent
          \/ /\ t \in {"io", "internet", "other", "no_handoff"}
             /\ agent' = [agent EXCEPT ![r] = SelectAgent(t)]
             /\ pc' = [pc EXCEPT ![r] = "ensure"]
             /\ UNCHANGED <<frames, agentErr>>
    /\ UNCHANGED <<messages, direct, out, sid, handled, limit, session, wrappers, layer, ops,
                   startState, conn, lastCall, toolCalls, active_sessions>>
    /\ UNCHANGED otherThanChat

(***************************************************************************)
(* chat_service.py:99-121: the loop that replaces server.call_tool by      *)
(* logged_call_tool, whose _orig is the call_tool found on the object,     *)
(* i.e. the wrapper an earlier request left there.  original_call_tools is *)
(* filled and never read: nothing removes a layer.                         *)
(***************************************************************************)
InstallWrapper(w) == w + 1

(***************************************************************************)
(* chat_service.py:91-94, 293-301: ensure_mcp_servers_connected connects   *)
(* only when server.session is None, then lines 97-123 run without an      *)
(* await.                                                                  *)
(***************************************************************************)
EnsureConnected(r) ==
    /\ pc[r] = "ensure"
    /\ LET s == ServerOf(agent[r]) IN
          IF s \in Servers /\ session[s] = "None"
          THEN /\ pc' = [pc EXCEPT ![r] = "connecting"]
               /\ UNCHANGED wrappers
          ELSE /\ pc' = [pc EXCEPT ![r] = "events"]
               /\ wrappers' = IF s \in Servers
                              THEN [wrappers EXCEPT ![s] = InstallWrapper(@)]
                              ELSE wrappers
    /\ UNCHANGED <<messages, direct, frames, out, agent, agentErr, sid, handled, limit, session,
                   layer, ops, startState, conn, lastCall, toolCalls, active_sessions>>
    /\ UNCHANGED otherThanChat

\* chat_service.py:299: `await server.connect()` returns or raises
EnsureConnectReturns(r) ==
    /\ pc[r] = "connecting"
    /\ LET s == ServerOf(agent[r]) IN
          \/ /\ session' = [session EXCEPT ![s] = "Connected"]
             /\ wrappers' = [wrappers EXCEPT ![s] = InstallWrapper(@)]
             /\ pc' = [pc EXCEPT ![r] = "events"]
             /\ UNCHANGED <<frames, agentErr, agent>>
          \/ /\ AgentRaises(r, "connect")
             /\ agent' = [agent EXCEPT ![r] = "none"]
             /\ UNCHANGED <<session, wrappers>>
    /\ UNCHANGED <<messages, direct, out, sid, handled, limit, layer, ops, startState,
                   conn, lastCall, toolCalls, active_sessions>>
    /\ UNCHANGED otherThanChat

(***************************************************************************)
(* chat_service.py:126-255: one event of result.stream_events().  The      *)
(* events that only log (an empty text delta, an argument delta, a         *)
(* tool_call_item, a tool_call_output_item without output, a message       *)
(* without raw_item) yield nothing.                                        *)
(***************************************************************************)
AgentEvents == {"text_delta", "message_output", "log_only", "completed",
                "tool_output", "end_of_stream", "raise"}

(***************************************************************************)
(* chat_service.py:169, 221, 254: the frame that ends the agent route is   *)
(* `data: [DONE]`, whether the run reported completion, a tool output      *)
(* ended it, or the event stream just ended.                               *)
(***************************************************************************)
AgentEndFrameErrorOnBareEnd(ev) == IF ev = "end_of_stream" THEN "error" ELSE "done"

AgentEndFrame(ev) == "done"

\* the locals of the agent route (selected_agent, the runner and its call) are
\* dead once the route is left
LeaveAgentRoute(r) ==
    /\ agent' = [agent EXCEPT ![r] = "none"]
    /\ layer' = [layer EXCEPT ![r] = 0]
    /\ ops' = [ops EXCEPT ![r] = <<>>]
    /\ startState' = [startState EXCEPT ![r] = "None"]
    /\ conn' = [conn EXCEPT ![r] = "none"]
    /\ lastCall' = [lastCall EXCEPT ![r] = "none"]
    /\ toolCalls' = [toolCalls EXCEPT ![r] = 0]

AgentEvent(r) ==
    /\ pc[r] = "events"
    /\ \E ev \in AgentEvents :
          \/ /\ ev \in {"text_delta", "message_output"}     \* lines 137-151, 224-244
             /\ Count(frames[r], {"delta"}) < MaxChunks
             /\ frames' = [frames EXCEPT ![r] = Append(@, "delta")]
             /\ UNCHANGED <<pc, agentErr, agent, layer, ops, startState, conn,
                            lastCall, toolCalls>>
          \/ /\ ev = "log_only"
             /\ UNCHANGED <<pc, frames, agentErr, agent, layer, ops, startState, conn,
                            lastCall, toolCalls>>
          \/ /\ ev \in {"completed", "end_of_stream"}       \* lines 168-170, 253-255
             /\ frames' = [frames EXCEPT ![r] = Append(@, AgentEndFrame(ev))]
             /\ pc' = [pc EXCEPT ![r] = "done"]
             /\ LeaveAgentRoute(r)
             /\ UNCHANGED agentErr
          \/ /\ ev = "tool_output"                          \* lines 197-222
             /\ lastCall[r] = "ok"
             /\ frames' = [frames EXCEPT ![r] = Append(Append(@, "delta"), AgentEndFrame(ev))]
             /\ pc' = [pc EXCEPT ![r] = "done"]
             /\ LeaveAgentRoute(r)
             /\ UNCHANGED agentErr
          \/ /\ ev = "raise"                                \* line 257
             /\ AgentRaises(r, IF lastCall[r] = "failed" THEN "tool" ELSE "stream")
             /\ LeaveAgentRoute(r)
    /\ UNCHANGED <<messages, direct, out, sid, handled, limit, session, wrappers, active_sessions>>
    /\ UNCHANGED otherThanChat

(***************************************************************************)
(* chat_service.py:103-111: what a logged_call_tool layer does first.  It  *)
(* does not look at server.session: it always starts with cleanup().       *)
(***************************************************************************)
WrapperEntryIfNotConnected(st) == IF st = "Connected" THEN "skip" ELSE "cleanup"

WrapperEntry(st) == "cleanup"

(***************************************************************************)
(* chat_service.py:107-110: an exception of cleanup() is swallowed, and    *)
(* connect() follows in both cases.                                        *)
(***************************************************************************)
AfterCleanupStrict(ok) == IF ok THEN "connect" ELSE "raise"

AfterCleanup(ok) == "connect"

(***************************************************************************)
(* chat_service.py:111-119: an exception of connect() leaves the wrapper   *)
(* (logged and re-raised by every layer around it); otherwise the layer    *)
(* awaits _orig: the next layer's cleanup, or the server's own call_tool,  *)
(* which sends the request on the session just opened.                     *)
(***************************************************************************)
AfterConnect(ok, k) ==
    IF ~ok THEN "raise" ELSE IF k > 1 THEN "cleanup" ELSE "in_flight"

\* the in-flight calls of other slots on server s get connection state c
Disrupt(r, s, c) ==
    [q \in Slots |->
        IF q # r /\ pc[q] = "in_flight" /\ ServerOf(agent[q]) = s /\ conn[q] = "intact"
        THEN c ELSE conn[q]]

(***************************************************************************)
(* The runner calls server.call_tool, i.e. the outermost logged_call_tool  *)
(* layer (chat_service.py:103-108), which runs to `await cleanup()`.       *)
(***************************************************************************)
CallTool(r) ==
    /\ pc[r] = "events"
    /\ ServerOf(agent[r]) \in Servers
    /\ toolCalls[r] < MaxToolCalls
    /\ LET s == ServerOf(agent[r])
           e == WrapperEntry(session[s]) IN
          /\ startState' = [startState EXCEPT ![r] = session[s]]
          /\ IF e = "cleanup"
             THEN /\ pc' = [pc EXCEPT ![r] = "cleanup"]
                  /\ layer' = [layer EXCEPT ![r] = wrappers[s]]
                  /\ ops' = [ops EXCEPT ![r] = <<>>]
                  /\ conn' = [conn EXCEPT ![r] = "none"]
             ELSE /\ pc' = [pc EXCEPT ![r] = "in_flight"]
                  /\ layer' = [layer EXCEPT ![r] = 0]
                  /\ ops' = [ops EXCEPT ![r] = <<"call">>]
                  /\ conn' = [conn EXCEPT ![r] = "intact"]
    /\ UNCHANGED <<messages, direct, frames, out, agent, agentErr, sid, handled, limit, session,
                   wrappers, lastCall, toolCalls, active_sessions>>
    /\ UNCHANGED otherThanChat

(***************************************************************************)
(* chat_service.py:107-110: `await _server.cleanup()` returns or raises.   *)
(* A cleanup that succeeds closes the server's connection, whoever is      *)
(* using it, and leaves session None; one that raises may or may not have  *)
(* closed it.                                                              *)
(***************************************************************************)
Cleanup(r) ==
    /\ pc[r] = "cleanup"
    /\ LET s == ServerOf(agent[r]) IN
       \E ok \in BOOLEAN, closed \in BOOLEAN :
          /\ ok => closed
          /\ session' = IF closed THEN [session EXCEPT ![s] = "None"] ELSE session
          /\ conn' = IF closed THEN Disrupt(r, s, "closed") ELSE conn
          /\ ops' = [ops EXCEPT ![r] = Append(@, IF ok THEN "cleanup" ELSE "cleanup_failed")]
          /\ IF AfterCleanup(ok) = "connect"
             THEN /\ pc' = [pc EXCEPT ![r] = "connect"]
                  /\ UNCHANGED <<lastCall, toolCalls>>
             ELSE /\ pc' = [pc EXCEPT ![r] = "events"]
                  /\ lastCall' = [lastCall EXCEPT ![r] = "failed"]
                  /\ toolCalls' = [toolCalls EXCEPT ![r] = @ + 1]
    /\ UNCHANGED <<messages, direct, frames, out, agent, agentErr, sid, handled, limit, wrappers,
                   layer, startState, active_sessions>>
    /\ UNCHANGED otherThanChat

(***************************************************************************)
(* chat_service.py:111-114: `await _server.connect()` returns or raises.   *)
(* A connect that succeeds puts a new session on the server object; one    *)
(* that fails leaves it without a session.                                 *)
(***************************************************************************)
Connect(r) ==
    /\ pc[r] = "connect"
    /\ LET s == ServerOf(agent[r]) IN
       \E ok \in BOOLEAN :
          LET next == AfterConnect(ok, layer[r]) IN
          /\ session' = [session EXCEPT ![s] = IF ok THEN "Connected" ELSE "None"]
          /\ IF next = "raise"
             THEN /\ pc' = [pc EXCEPT ![r] = "events"]
                  /\ ops' = [ops EXCEPT ![r] = Append(@, "connect_failed")]
                  /\ lastCall' = [lastCall EXCEPT ![r] = "failed"]
                  /\ toolCalls' = [toolCalls EXCEPT ![r] = @ + 1]
                  /\ conn' = Disrupt(r, s, "closed")
                  /\ UNCHANGED layer
             ELSE /\ pc' = [pc EXCEPT ![r] = next]
                  /\ ops' = [ops EXCEPT ![r] =
                               LET o == Append(@, IF ok THEN "connect" ELSE "connect_failed")
                               IN IF next = "in_flight" THEN Append(o, "call") ELSE o]
                  /\ layer' = [layer EXCEPT ![r] = @ - 1]
                  /\ conn' = [Disrupt(r, s, IF ok THEN "replaced" ELSE "closed")
                                EXCEPT ![r] = IF next = "in_flight" THEN "intact" ELSE @]
                  /\ UNCHANGED <<lastCall, toolCalls>>
    /\ UNCHANGED <<messages, direct, frames, out, agent, agentErr, sid, handled, limit, wrappers,
                   startState, active_sessions>>
    /\ UNCHANGED otherThanChat

(***************************************************************************)
(* chat_service.py:114-119: `await _orig(tool_name, arguments)` returns or *)
(* raises (every layer logs and re-raises), or never returns.  A call      *)
(* whose connection was closed under it cannot succeed.                    *)
(***************************************************************************)
ToolReplies == {"result", "error", "hang"}

ToolReply(r) ==
    /\ pc[r] = "in_flight"
    /\ \E rep \in ToolReplies :
          /\ rep = "result" => conn[r] # "closed"
          /\ IF rep = "hang"
             THEN /\ pc' = [pc EXCEPT ![r] = "hung"]
                  /\ UNCHANGED <<lastCall, toolCalls, conn>>
             ELSE /\ pc' = [pc EXCEPT ![r] = "events"]
                  /\ lastCall' = [lastCall EXCEPT ![r] =
                                     IF rep = "result" THEN "ok" ELSE "failed"]
                  /\ toolCalls' = [toolCalls EXCEPT ![r] = @ + 1]
                  /\ conn' = [conn EXCEPT ![r] = "none"]
    /\ UNCHANGED <<messages, direct, frames, out, agent, agentErr, sid, handled, limit, session,
                   wrappers, layer, ops, startState, active_sessions>>
    /\ UNCHANGED otherThanChat

(***************************************************************************)
(* The provider closes an idle session (the session closure that            *)
(* chat_service.py:99-105 works around); the server object still holds it. *)
(***************************************************************************)
ProviderClosesIdleSession(s) ==
    /\ session[s] = "Connected"
    /\ \A q \in Slots : ~(pc[q] = "in_flight" /\ ServerOf(agent[q]) = s)
    /\ session' = [session EXCEPT ![s] = "Stale"]
    /\ UNCHANGED <<pc, messages, direct, frames, out, agent, agentErr, sid, handled, limit, wrappers,
                   layer, ops, startState, conn, lastCall, toolCalls, active_sessions>>
    /\ UNCHANGED otherThanChat

(***************************************************************************)
(* LLMEngine.chat_stream, llm_engine.py:111-183, driven by stream_chat's   *)
(* `async for chunk in self.engine.chat_stream(...): yield chunk`          *)
(* (chat_service.py:265-266): every frame chat_stream yields is yielded    *)
(* by stream_chat as it is.                                                *)
(***************************************************************************)
Yield(r, f) ==
    /\ out' = [out EXCEPT ![r] = Append(@, f)]
    /\ frames' = [frames EXCEPT ![r] = Append(@, f)]

\* llm_engine.py:180-183: the finally clause
PopSession(r) == active_sessions' = active_sessions \ {sid[r]}

(***************************************************************************)
(* llm_engine.py:117-137: the guard on an empty history, the registration  *)
(* in active_sessions, and the code up to `await self.check_health()`.     *)
(* chat_stream catches every Exception itself (177-179), so the handlers   *)
(* of stream_chat's outer try (chat_service.py:268-274) are not reached    *)
(* from here.                                                              *)
(***************************************************************************)
ChatStreamEnter(r) ==
    /\ pc[r] = "direct"
    /\ direct' = [direct EXCEPT ![r] = TRUE]
    /\ IF messages[r] = "empty"
       THEN /\ Yield(r, "error")
            /\ pc' = [pc EXCEPT ![r] = "done"]
            /\ UNCHANGED active_sessions
       ELSE /\ active_sessions' = active_sessions \cup {sid[r]}
            /\ pc' = [pc EXCEPT ![r] = "health"]
            /\ UNCHANGED <<out, frames>>
    /\ UNCHANGED <<messages, agent, agentErr, sid, handled, limit, session, wrappers, layer,
                   ops, startState, conn, lastCall, toolCalls>>
    /\ UNCHANGED otherThanChat

(***************************************************************************)
(* llm_engine.py:137-146 (check_health: 76-83): an unhealthy backend gives *)
(* one error frame and the generator returns.                              *)
(***************************************************************************)
HealthCheck(r) ==
    /\ pc[r] = "health"
    /\ \E healthy \in BOOLEAN :
          IF healthy
          THEN /\ pc' = [pc EXCEPT ![r] = "open"]
               /\ UNCHANGED <<out, frames, active_sessions>>
          ELSE /\ Yield(r, "error")
               /\ PopSession(r)
               /\ pc' = [pc EXCEPT ![r] = "done"]
    /\ UNCHANGED <<messages, direct, agent, agentErr, sid, handled, limit, session, wrappers, layer,
                   ops, startState, conn, lastCall, toolCalls>>
    /\ UNCHANGED otherThanChat

(***************************************************************************)
(* llm_engine.py:146-155, 177-179: client.stream(...) is entered.  A       *)
(* connect error or a timeout is an exception (one error frame, line 179); *)
(* a status other than 200 ends in one error frame too (line 151, or line  *)
(* 179 when reading the body at line 149 raises).                          *)
(***************************************************************************)
OpenResults == {"connect_error", "timeout", "status_not_200", "status_200"}

OpenStream(r) ==
    /\ pc[r] = "open"
    /\ \E res \in OpenResults :
          IF res = "status_200"
          THEN /\ pc' = [pc EXCEPT ![r] = "lines"]
               /\ UNCHANGED <<out, frames, active_sessions>>
          ELSE /\ Yield(r, "error")
               /\ PopSession(r)
               /\ pc' = [pc EXCEPT ![r] = "done"]
    /\ UNCHANGED <<messages, direct, agent, agentErr, sid, handled, limit, session, wrappers, layer,
                   ops, startState, conn, lastCall, toolCalls>>
    /\ UNCHANGED otherThanChat

(***************************************************************************)
(* llm_engine.py:157-175: what the loop over response.aiter_lines() yields *)
(* when the upstream ends the body: the loop is left and line 175 logs;    *)
(* no frame is yielded.                                                    *)
(***************************************************************************)
OnUpstreamClose(fr) == fr

(***************************************************************************)
(* llm_engine.py:157-183: one step of `async for line in                   *)
(* response.aiter_lines()`: a line, the end of the body, or an exception   *)
(* of the transport.                                                       *)
(***************************************************************************)
UpstreamSteps == {"data", "non_data", "done_marker", "close", "exception"}

StreamLine(r) ==
    /\ pc[r] = "lines"
    /\ \E ln \in UpstreamSteps :
          \/ /\ ln = "data"                                  \* lines 165, 172
             /\ Count(out[r], {"delta"}) < MaxChunks
             /\ Yield(r, "delta")
             /\ UNCHANGED <<pc, active_sessions>>
          \/ /\ ln = "non_data"                              \* lines 161-163
             /\ UNCHANGED <<pc, out, frames, active_sessions>>
          \/ /\ ln = "done_marker"                           \* lines 167-170
             /\ Yield(r, "done")
             /\ PopSession(r)
             /\ pc' = [pc EXCEPT ![r] = "done"]
          \/ /\ ln = "close"                                 \* line 175
             /\ out' = [out EXCEPT ![r] = OnUpstreamClose(@)]
             /\ frames' = [frames EXCEPT ![r] = OnUpstreamClose(@)]
             /\ PopSession(r)
             /\ pc' = [pc EXCEPT ![r] = "done"]
          \/ /\ ln = "exception"                             \* lines 177-179
             /\ Yield(r, "error")
             /\ PopSession(r)
             /\ pc' = [pc EXCEPT ![r] = "done"]
    /\ UNCHANGED <<messages, direct, agent, agentErr, sid, handled, limit, session, wrappers, layer,
                   ops, startState, conn, lastCall, toolCalls>>
    /\ UNCHANGED otherThanChat

(***************************************************************************)
(* Requests handled one after the other: slot 1 serves them all.           *)
(***************************************************************************)
Next ==
    \/ Start(1)
    \/ Triage(1)
    \/ EnsureConnected(1)
    \/ EnsureConnectReturns(1)
    \/ AgentEvent(1)
    \/ CallTool(1)
    \/ Cleanup(1)
    \/ Connect(1)
    \/ ToolReply(1)
    \/ \E s \in Servers : ProviderClosesIdleSession(s)
    \/ ChatStreamEnter(1)
    \/ HealthCheck(1)
    \/ OpenStream(1)
    \/ StreamLine(1)

Spec == Init /\ [][Next]_vars

(***************************************************************************)
(* Two requests in flight: the generators of both slots interleave at      *)
(* their awaits.                                                           *)
(***************************************************************************)
NextConcurrent ==
    \/ \E r \in Slots : Start(r)
    \/ \E r \in Slots : Triage(r)
    \/ \E r \in Slots : EnsureConnected(r)
    \/ \E r \in Slots : EnsureConnectReturns(r)
    \/ \E r \in Slots : AgentEvent(r)
    \/ \E r \in Slots : CallTool(r)
    \/ \E r \in Slots : Cleanup(r)
    \/ \E r \in Slots : Connect(r)
    \/ \E r \in Slots : ToolReply(r)
    \/ \E s \in Servers : ProviderClosesIdleSession(s)
    \/ \E r \in Slots : ChatStreamEnter(r)
    \/ \E r \in Slots : HealthCheck(r)
    \/ \E r \in Slots : OpenStream(r)
    \/ \E r \in Slots : StreamLine(r)

SpecConcurrent == InitConcurrent /\ [][NextConcurrent]_vars

(***************************************************************************)
(*                 MCPService.process_with_mcp                             *)
(***************************************************************************)
\* the texts get_llm_response may return (mcp_service.py:88-127): "" when
\* the backend failed or said nothing
Payloads == {"empty", "sentinel", "fenced_sentinel", "not_json", "bad_json",
             "no_tool_key", "tool_add", "fenced_tool_add", "tool_ghost",
             "tool_with_empty_list_argument"}

AddDecision == [name |-> "add", args |-> <<2, 2>>]

GhostDecision == [name |-> "ghost", args |-> <<>>]

(***************************************************************************)
(* mcp_service.py:129-175, call_llm_for_tools on the text p: nothing for   *)
(* an empty text (149-150); the fences are removed (157); nothing when     *)
(* "[]" occurs anywhere in the text (160-161); the text between the first  *)
(* "{" and the last "}" is parsed (164-166) and gives one call when it has *)
(* a "tool" key (168-170); nothing otherwise, a parse error included       *)
(* (172-175).                                                              *)
(***************************************************************************)
call_llm_for_toolsListedOnly(p) ==
    CASE p = "empty" -> <<>>
      [] p \in {"sentinel", "fenced_sentinel", "tool_with_empty_list_argument"} -> <<>>
      [] p \in {"not_json", "bad_json", "no_tool_key"} -> <<>>
      [] p \in {"tool_add", "fenced_tool_add"} -> <<AddDecision>>
      [] p = "tool_ghost" -> <<>>

call_llm_for_toolsWithoutKeyTest(p) ==
    CASE p = "empty" -> <<>>
      [] p \in {"sentinel", "fenced_sentinel", "tool_with_empty_list_argument"} -> <<>>
      [] p \in {"not_json", "bad_json"} -> <<>>
      [] p = "no_tool_key" -> <<GhostDecision>>
      [] p \in {"tool_add", "fenced_tool_add"} -> <<AddDecision>>
      [] p = "tool_ghost" -> <<GhostDecision>>

call_llm_for_tools(p) ==
    CASE p = "empty" -> <<>>
      [] p \in {"sentinel", "fenced_sentinel", "tool_with_empty_list_argument"} -> <<>>
      [] p \in {"not_json", "bad_json", "no_tool_key"} -> <<>>
      [] p \in {"tool_add", "fenced_tool_add"} -> <<AddDecision>>
      [] p = "tool_ghost" -> <<GhostDecision>>

\* the name the decision log keeps of what call_llm_for_tools returned
Decided(d) == IF d = <<>> THEN "none" ELSE d[1].name

(***************************************************************************)
(* What `await session.call_tool(tool_name, arguments=arguments)`          *)
(* (mcp_service.py:208) may do: return a result whose first content is the *)
(* sum, return a result without content, return the provider's error text  *)
(* for a name it does not serve, or raise (a provider or connection        *)
(* error).                                                                 *)
(***************************************************************************)
ProviderOutcomes(name, served) ==
    IF name = "add" /\ name \in served
    THEN {"content_4", "no_content", "exception"}
    ELSE {"content_unknown_tool", "exception"}

(***************************************************************************)
(* mcp_service.py:195-214, call_mcp_tool: the text of the first content    *)
(* (209-210), "No result" for a result without content (211), and          *)
(* "Error: ..." for an exception of session.call_tool (212-214).  It       *)
(* returns a text in every case.                                           *)
(***************************************************************************)
\* a failure that leaves call_mcp_tool as an exception instead of a text
call_mcp_toolReraises(o) ==
    CASE o = "content_4" -> [raised |-> FALSE, text |-> "4"]
      [] o = "content_unknown_tool" -> [raised |-> FALSE, text |-> "Unknown tool"]
      [] o = "no_content" -> [raised |-> FALSE, text |-> "No result"]
      [] o = "exception" -> [raised |-> TRUE, text |-> ""]

call_mcp_tool(o) ==
    CASE o = "content_4" -> [raised |-> FALSE, text |-> "4"]
      [] o = "content_unknown_tool" -> [raised |-> FALSE, text |-> "Unknown tool"]
      [] o = "no_content" -> [raised |-> FALSE, text |-> "No result"]
      [] o = "exception" -> [raised |-> FALSE, text |-> "Error"]

\* the texts call_mcp_tool may return for a call of `name`
ToolTexts(name, served) ==
    {call_mcp_tool(o).text : o \in ProviderOutcomes(name, served)}

(***************************************************************************)
(* mcp_service.py:311-318: the user message of the decision request.       *)
(***************************************************************************)
DecisionPromptLastStepOnly(wl) ==
    IF wl = <<>>
    THEN UserMessage(TRUE, <<>>, "", "none")
    ELSE UserMessage(FALSE, <<wl[Len(wl)]>>, wl[Len(wl)].result, "ask_next_tool")

DecisionPrompt(wl) ==
    IF wl = <<>>
    THEN UserMessage(TRUE, <<>>, "", "none")
    ELSE UserMessage(FALSE, wl, wl[Len(wl)].result, "ask_next_tool")

(***************************************************************************)
(* mcp_service.py:323-333: the request returned when the loop is done: the *)
(* system prompt without tools, and the decision prompt without its        *)
(* closing instruction.                                                    *)
(***************************************************************************)
DoneRequest(wl) ==
    [kind |-> "messages", system |-> "without_tools",
     user |-> [DecisionPrompt(wl) EXCEPT !.closing = "none"]]

(***************************************************************************)
(* mcp_service.py:347-360: the request returned when max_iterations is     *)
(* reached.                                                                *)
(***************************************************************************)
BudgetRequestNone(wl) == ReturnsNone

BudgetRequest(wl) ==
    IF wl # <<>>
    THEN [kind |-> "messages", system |-> "without_tools",
          user |-> UserMessage(FALSE, wl, wl[Len(wl)].result, "summarize")]
    ELSE ReturnsNone

McpReturn(res) ==
    /\ mpc' = "returned"
    /\ result' = res

\* a caller (chat_api.py:82) starts process_with_mcp
McpStart ==
    /\ mpc \in {"idle", "returned"}
    /\ runs < MaxRuns
    /\ runs' = runs + 1
    /\ mpc' = "open"
    /\ tools' = {}
    /\ queried' = FALSE
    /\ decisionLog' = <<>>
    /\ work_log' = <<>>
    /\ iteration' = 0
    /\ current' = NoDecision
    /\ payload' = "none"
    /\ sent' = NoMessage
    /\ lastOutcome' = "none"
    /\ result' = NoResult
    /\ UNCHANGED <<tools_cache, user_info_cache, providerTools>>
    /\ UNCHANGED otherThanMcp

\* between two runs the provider may serve another tool list
ProviderChangesTools ==
    /\ mpc \in {"idle", "returned"}
    /\ \E l \in ToolLists \ {providerTools} : providerTools' = l
    /\ UNCHANGED <<mpc, runs, tools_cache, user_info_cache, tools, queried,
                   decisionLog, work_log, iteration, current, payload, sent, lastOutcome, result>>
    /\ UNCHANGED otherThanMcp

(***************************************************************************)
(* mcp_service.py:272-277, 362-364: a new connection and a new session are *)
(* opened and initialized; an exception of either ends the run with None.  *)
(***************************************************************************)
McpOpenSession ==
    /\ mpc = "open"
    /\ \E ok \in BOOLEAN :
          IF ok
          THEN /\ mpc' = "get_tools"
               /\ UNCHANGED result
          ELSE McpReturn(ReturnsNone)
    /\ UNCHANGED <<runs, tools_cache, user_info_cache, providerTools, tools, queried,
                   decisionLog, work_log, iteration, current, payload, sent, lastOutcome>>
    /\ UNCHANGED otherThanMcp

(***************************************************************************)
(* mcp_service.py:216-236: whether get_available_tools answers from        *)
(* _tools_cache.  Nothing empties the cache when a session is opened       *)
(* (clear_cache, 366-369, has no caller).                                  *)
(***************************************************************************)
CacheHit(cache) == cache # <<>>

\* mcp_service.py:282, `if not tools`
NoToolsNeverReturns(t) == FALSE

NoTools(t) == t = {}

(***************************************************************************)
(* mcp_service.py:280-284 and get_available_tools, 216-236.                *)
(***************************************************************************)
McpGetTools ==
    /\ mpc = "get_tools"
    /\ \E ok \in BOOLEAN :
          LET got == IF CacheHit(tools_cache) THEN tools_cache[1]
                     ELSE IF ok THEN providerTools ELSE {} IN
          /\ tools' = got
          /\ queried' = ~CacheHit(tools_cache)
          /\ tools_cache' = IF ~CacheHit(tools_cache) /\ ok THEN <<providerTools>>
                            ELSE tools_cache
          /\ IF NoTools(got)
             THEN McpReturn(ReturnsNone)
             ELSE /\ mpc' = "user_info"
                  /\ UNCHANGED result
    /\ UNCHANGED <<runs, user_info_cache, providerTools, decisionLog, work_log,
                   iteration, current, payload, sent, lastOutcome>>
    /\ UNCHANGED otherThanMcp

(***************************************************************************)
(* mcp_service.py:287-290 and get_user_info, 238-260.                      *)
(***************************************************************************)
McpGetUserInfo ==
    /\ mpc = "user_info"
    /\ \E r \in {"info", "no_content", "exception"} :
          user_info_cache' = IF user_info_cache = "None" /\ r = "info"
                             THEN "info" ELSE user_info_cache
    /\ mpc' = "first_decision"
    /\ UNCHANGED <<runs, tools_cache, providerTools, tools, queried, decisionLog,
                   work_log, iteration, current, payload, sent, lastOutcome, result>>
    /\ UNCHANGED otherThanMcp

(***************************************************************************)
(* mcp_service.py:292-305: the decision that tells whether tools are       *)
(* needed.  Its tool call is not executed: the loop asks again.            *)
(***************************************************************************)
McpFirstDecision ==
    /\ mpc = "first_decision"
    /\ \E p \in Payloads :
          LET tool_calls == call_llm_for_tools(p) IN
          /\ decisionLog' = Append(decisionLog, Decided(tool_calls))
          /\ payload' = p
          /\ sent' = UserMessage(TRUE, <<>>, "", "none")
          /\ IF tool_calls = <<>>
             THEN McpReturn(ReturnsNone)
             ELSE /\ mpc' = "decide"
                  /\ UNCHANGED result
    /\ work_log' = <<>>
    /\ iteration' = 0
    /\ UNCHANGED <<runs, tools_cache, user_info_cache, providerTools, tools, queried,
                   current, lastOutcome>>
    /\ UNCHANGED otherThanMcp

\* mcp_service.py:307, `while iteration < max_iterations`
LoopContinuesForever(it) == TRUE

LoopContinues(it) == it < max_iterations

(***************************************************************************)
(* mcp_service.py:307-337: the head of the loop up to the tool call.       *)
(***************************************************************************)
McpDecide ==
    /\ mpc = "decide"
    /\ LoopContinues(iteration)
    /\ \E p \in Payloads :
          LET functions_to_call == call_llm_for_tools(p) IN
          /\ decisionLog' = Append(decisionLog, Decided(functions_to_call))
          /\ payload' = p
          /\ sent' = DecisionPrompt(work_log)
          /\ IF functions_to_call = <<>>
             THEN /\ McpReturn(DoneRequest(work_log))
                  /\ UNCHANGED current
             ELSE /\ mpc' = "call"
                  /\ current' = functions_to_call[1]
                  /\ UNCHANGED result
    /\ lastOutcome' = "none"
    /\ UNCHANGED <<runs, tools_cache, user_info_cache, providerTools, tools, queried,
                   work_log, iteration>>
    /\ UNCHANGED otherThanMcp

(***************************************************************************)
(* mcp_service.py:339-360: call_mcp_tool returns, the step is appended,    *)
(* and the loop goes on or ends at max_iterations.  An exception raised    *)
(* inside the loop would reach the handler of 362-364, which returns None. *)
(***************************************************************************)
McpCallTool ==
    /\ mpc = "call"
    /\ \E o \in ProviderOutcomes(current.name, providerTools) :
          LET tool_result == call_mcp_tool(o)
              wl == Append(work_log,
                           [tool |-> current.name, args |-> current.args,
                            result |-> tool_result.text])
          IN /\ lastOutcome' = o
             /\ IF tool_result.raised
                THEN /\ McpReturn(ReturnsNone)
                     /\ UNCHANGED <<work_log, iteration>>
                ELSE /\ work_log' = wl
                     /\ iteration' = iteration + 1
                     /\ IF LoopContinues(iteration + 1)
                        THEN /\ mpc' = "decide"
                             /\ UNCHANGED result
                        ELSE McpReturn(BudgetRequest(wl))
    /\ current' = NoDecision
    /\ payload' = "none"
    /\ UNCHANGED <<runs, tools_cache, user_info_cache, providerTools, tools, queried,
                   decisionLog, sent>>
    /\ UNCHANGED otherThanMcp

NextMcp ==
    \/ McpStart
    \/ ProviderChangesTools
    \/ McpOpenSession
    \/ McpGetTools
    \/ McpGetUserInfo
    \/ McpFirstDecision
    \/ McpDecide
    \/ McpCallTool

SpecMcp == Init /\ [][NextMcp]_vars

(***************************************************************************)
(*              LLMEngine.chat_stream, line by line                        *)
(***************************************************************************)
\* the lines response.aiter_lines() may give: "data: " units with a chunk
\* or with the end marker (the second one padded with a blank), a blank
\* line, and a line whose "data:" is not followed by a blank
Lines == {[prefix |-> "data: ", payload |-> "c1"],
          [prefix |-> "data: ", payload |-> "c2"],
          [prefix |-> "data: ", payload |-> "[DONE]"],
          [prefix |-> "data: ", payload |-> "[DONE] "],
          [prefix |-> "", payload |-> ""],
          [prefix |-> "data:", payload |-> "c1"]}

\* the bodies of at most MaxLines lines
Bodies == UNION {[1..n -> Lines] : n \in 0..MaxLines}

\* llm_engine.py:161, `line.startswith("data: ")`
startswith_data(line) == line.prefix = "data: "

\* llm_engine.py:165, `line.removeprefix("data: ").strip()`
chunk_of(line) == IF line.payload = "[DONE] " THEN "[DONE]" ELSE line.payload

\* the frames `data: {"error": ...}` of lines 118, 139 and 179, and the
\* frame `data: [DONE]` of line 169
ErrorFrames == {"error: No messages provided",
                "error: LLM service is not available",
                "error: An error occurred"}

DoneFrame == "[DONE]"

(***************************************************************************)
(* llm_engine.py:117-135: the guard on an empty history; otherwise the     *)
(* payload is built and the try block is entered.                          *)
(***************************************************************************)
EngineCall ==
    /\ spc \in {"idle", "returned"}
    /\ \E h \in {"empty", "some"} :
          /\ history' = h
          /\ IF h = "empty"
             THEN /\ yielded' = <<"error: No messages provided">>
                  /\ spc' = "returned"
             ELSE /\ yielded' = <<>>
                  /\ spc' = "health"
    /\ transport' = <<>>
    /\ body' = <<>>
    /\ read' = <<>>
    /\ UNCHANGED otherThanEngine

\* llm_engine.py:137, `if not await self.check_health()`
AfterHealthIgnored(healthy) == "open"

AfterHealth(healthy) == IF healthy THEN "open" ELSE "returned"

(***************************************************************************)
(* llm_engine.py:137-140, check_health (76-83): GET on the models URL;     *)
(* _make_request turns every failure into (False, ...).  Unhealthy: one    *)
(* error frame and return.                                                 *)
(***************************************************************************)
EngineHealth ==
    /\ spc = "health"
    /\ \E healthy \in BOOLEAN :
          /\ transport' = Append(transport,
                                 [call |-> "GET models",
                                  result |-> IF healthy THEN "ok" ELSE "failed"])
          /\ spc' = AfterHealth(healthy)
          /\ yielded' = IF AfterHealth(healthy) = "returned"
                        THEN Append(yielded, "error: LLM service is not available")
                        ELSE yielded
    /\ UNCHANGED <<history, body, read>>
    /\ UNCHANGED otherThanEngine

\* llm_engine.py:177-179: the handler of every exception of the try block
OnTransportErrorSilent(fr) == fr

OnTransportError(fr) == Append(fr, "error: An error occurred")

(***************************************************************************)
(* llm_engine.py:142-152: the streaming POST.  A connect error and a       *)
(* timeout are exceptions (177-179).  With a status other than 200,        *)
(* `await response.text()` (149) is evaluated on a response whose body was *)
(* not read: it raises, and the handler of 177-179 yields the one error    *)
(* frame instead of line 151.                                              *)
(***************************************************************************)
EngineOpen ==
    /\ spc = "open"
    /\ \E res \in OpenResults :
          /\ transport' = Append(transport, [call |-> "POST chat", result |-> res])
          /\ IF res = "status_200"
             THEN /\ \E b \in Bodies : body' = b
                  /\ spc' = "lines"
                  /\ UNCHANGED yielded
             ELSE /\ yielded' = OnTransportError(yielded)
                  /\ spc' = "returned"
                  /\ UNCHANGED body
    /\ UNCHANGED <<history, read>>
    /\ UNCHANGED otherThanEngine

\* llm_engine.py:167-170: after the end marker the loop is left (`break`)
AfterDoneMarkerKeepsReading == "lines"

AfterDoneMarker == "returned"

(***************************************************************************)
(* llm_engine.py:157-179: one turn of `async for line in                   *)
(* response.aiter_lines()`: the next line (skipped, re-emitted, or the end *)
(* marker), the end of the body, or an exception of the transport.         *)
(***************************************************************************)
EngineRead ==
    /\ spc = "lines"
    /\ \/ /\ body # <<>>
          /\ LET line == Head(body) IN
                /\ body' = Tail(body)
                /\ read' = Append(read, line)
                /\ IF ~startswith_data(line)
                   THEN UNCHANGED <<yielded, spc>>
                   ELSE IF chunk_of(line) = "[DONE]"
                   THEN /\ yielded' = Append(yielded, DoneFrame)
                        /\ spc' = AfterDoneMarker
                   ELSE /\ yielded' = Append(yielded, chunk_of(line))
                        /\ UNCHANGED spc
          /\ UNCHANGED transport
       \/ /\ body = <<>>
          /\ yielded' = OnUpstreamClose(yielded)
          /\ spc' = "returned"
          /\ UNCHANGED <<body, read, transport>>
       \/ /\ transport' = Append(transport, [call |-> "read body", result |-> "exception"])
          /\ yielded' = OnTransportError(yielded)
          /\ spc' = "returned"
          /\ UNCHANGED <<body, read>>
    /\ UNCHANGED history
    /\ UNCHANGED otherThanEngine

NextEngine ==
    \/ EngineCall
    \/ EngineHealth
    \/ EngineOpen
    \/ EngineRead

SpecEngine == Init /\ [][NextEngine]_vars

(***************************************************************************)
(*            ConversationManager.prepare_conversation                     *)
(***************************************************************************)
\* core/models.py:14, Message: a role and a non-empty content
Roles == {"user", "assistant", "system"}

Contents == {"a", "b"}

Message(role, content) == [role |-> role, content |-> content]

Messages == {Message(r, c) : r \in Roles, c \in Contents}

Histories == UNION {[1..n -> Messages] : n \in 0..MaxHistory}

\* the system prompt handed to prepare_conversation
system_prompt == "sys"

(***************************************************************************)
(* conversation.py:35-62, _count_tokens: the length of the tokenizer's     *)
(* encoding of the messages.  The tokenizer is not part of the repository: *)
(* every content has a fixed number of tokens and a list of messages has   *)
(* the sum of them.                                                        *)
(***************************************************************************)
TokensOf(content) == IF content = "b" THEN 2 ELSE 1

RECURSIVE count_tokens(_)
count_tokens(msgs) ==
    IF msgs = <<>> THEN 0
    ELSE TokensOf(Head(msgs).content) + count_tokens(Tail(msgs))

(***************************************************************************)
(* conversation.py:84-92: of consecutive user messages only the last one   *)
(* is kept.  `cleaned` is cleaned_messages, `rest` what the loop has not   *)
(* visited yet.                                                            *)
(***************************************************************************)
RECURSIVE cleaned_messages(_, _)
cleaned_messages(cleaned, rest) ==
    IF rest = <<>> THEN cleaned
    ELSE LET msg == Head(rest) IN
         IF msg.role = "user" /\ cleaned # <<>> /\ Last(cleaned).role = "user"
         THEN cleaned_messages([cleaned EXCEPT ![Len(cleaned)] = msg], Tail(rest))
         ELSE cleaned_messages(Append(cleaned, msg), Tail(rest))

\* conversation.py:100: the system messages of the history are removed
conversation_messagesKeepsSystem(cleaned) == cleaned

conversation_messages(cleaned) == SelectSeq(cleaned, LAMBDA msg : msg.role # "system")

(***************************************************************************)
(* conversation.py:115-158, _truncate_by_tokens: while the system message  *)
(* and the messages exceed max_allowed, the oldest message is removed,     *)
(* together with the next one when they are a user-assistant pair.         *)
(***************************************************************************)
truncate_by_tokensKeepsAll(msgs, max_allowed) == msgs

RECURSIVE truncate_by_tokens(_, _)
truncate_by_tokens(msgs, max_allowed) ==
    IF msgs = <<>> THEN msgs
    ELSE IF count_tokens(<<Message("system", system_prompt)>> \o msgs) <= max_allowed
    THEN msgs
    ELSE IF Len(msgs) >= 2 /\ msgs[1].role = "user"
                               /\ msgs[2].role = "assistant"
    THEN truncate_by_tokens(SubSeq(msgs, 3, Len(msgs)), max_allowed)
    ELSE truncate_by_tokens(Tail(msgs), max_allowed)

\* conversation.py:64-112: the messages prepare_conversation returns
prepare_conversation(msgs, max_allowed) ==
    <<Message("system", system_prompt)>>
        \o truncate_by_tokens(conversation_messages(cleaned_messages(<<>>, msgs)),
                              max_allowed)

\* a caller has a history and a token budget
ReceiveHistory ==
    /\ cpc = "idle"
    /\ \E h \in Histories, budget \in 1..MaxBudget :
          /\ conversation' = h
          /\ max_allowed_tokens' = budget
    /\ cpc' = "received"
    /\ prepared' = <<>>
    /\ prepared_again' = <<>>
    /\ UNCHANGED otherThanConv

\* prepare_conversation is applied to the history
Prepare ==
    /\ cpc = "received"
    /\ prepared' = prepare_conversation(conversation, max_allowed_tokens)
    /\ cpc' = "prepared"
    /\ UNCHANGED <<conversation, max_allowed_tokens, prepared_again>>
    /\ UNCHANGED otherThanConv

\* prepare_conversation is applied to what it returned
PrepareAgain ==
    /\ cpc = "prepared"
    /\ prepared_again' = prepare_conversation(prepared, max_allowed_tokens)
    /\ cpc' = "prepared_again"
    /\ UNCHANGED <<conversation, max_allowed_tokens, prepared>>
    /\ UNCHANGED otherThanConv

NextConv ==
    \/ ReceiveHistory
    \/ Prepare
    \/ PrepareAgain

SpecConv == Init /\ [][NextConv]_vars

(***************************************************************************)
(*                     LLMEngine.active_sessions                           *)
(***************************************************************************)
\* the session ids the callers pass: to chat_stream the one of a client's
\* request (routes.py:38), the one of call_llm_for_tools
\* (mcp_service.py:147) and the one of the title service
\* (title_service.py:50); to get_structured_completion the ones of the task
\* and summarization services (task_service.py:89,
\* summarization_service.py:59)
SessionIdsOf(kind) ==
    IF kind = "chat_stream"
    THEN {"client_1", "client_2", "mcp_tool_decision", "title_generation"}
    ELSE {"task_extraction", "email_summarization"}

(***************************************************************************)
(* llm_engine.py:122 and 196-197: `self.active_sessions[session_id] = ...` *)
(* - the dictionary has one entry for a key, whoever wrote it.             *)
(***************************************************************************)
Register(c) ==
    /\ calls[c].at = "idle"
    /\ \E kind \in {"chat_stream", "get_structured_completion"} :
          \E id \in SessionIdsOf(kind) :
             /\ calls' = [calls EXCEPT ![c] =
                             [kind |-> kind, session_id |-> id, at |-> "registered"]]
             /\ active_sessions' = active_sessions \cup {id}
    /\ UNCHANGED otherThanSessions

(***************************************************************************)
(* llm_engine.py:180-183 and 261-264, the finally clause of both calls:    *)
(* the entry of the call's session_id is removed when there is one.        *)
(***************************************************************************)
Finish(c) ==
    /\ calls[c].at = "registered"
    /\ calls' = [calls EXCEPT ![c].at = "finished"]
    /\ active_sessions' = active_sessions \ {calls[c].session_id}
    /\ UNCHANGED otherThanSessions

NextSessions ==
    \/ \E c \in 1..MaxCalls : Register(c)
    \/ \E c \in 1..MaxCalls : Finish(c)

SpecSessions == Init /\ [][NextSessions]_vars

(***************************************************************************)
(*                              The claims                                 *)
(***************************************************************************)
Finished(r) == pc[r] = "done"

\* the frames stream_chat yielded before chat_stream was called
AgentPrefix(r) == SubSeq(frames[r], 1, Len(frames[r]) - Len(out[r]))

Has(s, S) == \E i \in 1..Len(s) : s[i] \in S

\* every step the generator of slot r can take
SlotStep(r) ==
    \/ Triage(r) \/ EnsureConnected(r) \/ EnsureConnectReturns(r) \/ AgentEvent(r)
    \/ CallTool(r) \/ Cleanup(r) \/ Connect(r) \/ ToolReply(r)
    \/ ChatStreamEnter(r) \/ HealthCheck(r) \/ OpenStream(r) \/ StreamLine(r)

(***************************************************************************)
(* C1: when stream_chat has finished, the frames it yielded contain        *)
(* exactly one terminal frame (done or error), and that frame is the last  *)
(* one.                                                                    *)
(***************************************************************************)
C1_ExactlyOneTerminalFrameLast ==
    \A r \in Slots :
        Finished(r) =>
            /\ Len(frames[r]) > 0
            /\ Last(frames[r]) \in Terminal
            /\ Count(frames[r], Terminal) = 1

(***************************************************************************)
(* C2: when chat_stream has finished, the last frame it yielded is a done  *)
(* frame or an error frame, whatever the upstream did.                     *)
(***************************************************************************)
C2_ChatStreamEndsWithTerminalFrame ==
    \A r \in Slots :
        (Finished(r) /\ direct[r]) =>
            /\ Len(out[r]) > 0
            /\ Last(out[r]) \in Terminal

(***************************************************************************)
(* C3: a request whose agentic path never completes (the triage run or a   *)
(* tool call never returns) is not stuck: stream_chat can still take a     *)
(* step (abandon the run at a deadline and go on to the direct route).     *)
(***************************************************************************)
C3_HungAgentRunIsAbandoned ==
    \A r \in Slots : pc[r] = "hung" => ENABLED SlotStep(r)

(***************************************************************************)
(* C4: once the agent route has raised an exception, stream_chat is on the *)
(* direct route: it has yielded no terminal frame of its own (no error     *)
(* frame for the exception), it does not finish without having called      *)
(* chat_stream, and what it yields from then on is what chat_stream        *)
(* yields.                                                                 *)
(***************************************************************************)
C4_AgentExceptionFallsThroughToDirect ==
    \A r \in Slots :
        agentErr[r] # "none" =>
            /\ pc[r] \in {"direct", "health", "open", "lines", "done"}
            /\ pc[r] # "direct" => direct[r]
            /\ Len(out[r]) <= Len(frames[r])
            /\ SubSeq(frames[r], Len(frames[r]) - Len(out[r]) + 1, Len(frames[r])) = out[r]
            /\ ~Has(AgentPrefix(r), Terminal)

C4_Witness ==
    \E r \in Slots :
        /\ agentErr[r] = "tool"
        /\ Finished(r)
        /\ direct[r]
        /\ frames[r] = <<"delta", "delta", "done">>
        /\ out[r] = <<"delta", "done">>

(***************************************************************************)
(* C5: every error frame stream_chat yields is one chat_stream yielded: a  *)
(* request that never reached the direct route has no error frame and ends *)
(* with done; a request whose agent route failed and whose direct stream   *)
(* ended with done has no error frame and ends with done.                  *)
(***************************************************************************)
C5_ErrorFrameOnlyFromFailedDirectRoute ==
    \A r \in Slots :
        /\ Count(frames[r], {"error"}) = Count(out[r], {"error"})
        /\ ~direct[r] => ~Has(frames[r], {"error"})
        /\ (Finished(r) /\ ~direct[r]) => Last(frames[r]) = "done"
        /\ (Finished(r) /\ agentErr[r] # "none" /\ Len(out[r]) > 0 /\ Last(out[r]) = "done")
              => (Last(frames[r]) = "done" /\ ~Has(frames[r], {"error"}))

C5_Witness ==
    \E r \in Slots :
        /\ Finished(r)
        /\ agentErr[r] = "stream"
        /\ Len(AgentPrefix(r)) > 0
        /\ Last(out[r]) = "done"
        /\ ~Has(frames[r], {"error"})

(***************************************************************************)
(* C6: a call_tool in flight for one request has its connection intact: no *)
(* cleanup or connect made for another request has closed or replaced it.  *)
(***************************************************************************)
C6_InFlightCallKeepsItsConnection ==
    \A r \in Slots : pc[r] = "in_flight" => conn[r] = "intact"

C8_AtMostOneReconnectPerCall ==
    \A r \in Slots :
        /\ Count(ops[r], {"connect", "connect_failed"}) <= 1
        /\ Count(ops[r], {"cleanup", "cleanup_failed"}) <= 1

(***************************************************************************)
(* C9: within one call_tool the operations come in the order cleanup,      *)
(* connect, tool call: every connect follows a cleanup (failed or not), a  *)
(* failed cleanup is followed by connect, the tool call comes last and     *)
(* directly after a connect that succeeded, and nothing follows a connect  *)
(* that failed.                                                            *)
(***************************************************************************)
C9_CleanupConnectCallInOrder ==
    \A r \in Slots :
        LET o == ops[r] n == Len(ops[r]) IN
        /\ \A i \in 1..n :
              /\ o[i] \in {"cleanup", "cleanup_failed"} =>
                    /\ i % 2 = 1
                    /\ i = n => pc[r] = "connect"
                    /\ i < n => o[i + 1] \in {"connect", "connect_failed"}
              /\ o[i] \in {"connect", "connect_failed"} =>
                    /\ i % 2 = 0
                    /\ o[i - 1] \in {"cleanup", "cleanup_failed"}
              /\ o[i] = "connect_failed" => (i = n /\ pc[r] # "in_flight")
              /\ o[i] = "call" => (i = n /\ i > 2 /\ o[i - 1] = "connect")
        /\ pc[r] = "in_flight" => (n > 0 /\ o[n] = "call")

C9_Witness ==
    \E r \in Slots :
        /\ pc[r] = "in_flight"
        /\ startState[r] = "Stale"
        /\ ops[r] = <<"cleanup_failed", "connect", "call">>

C9_WitnessConnectFails ==
    \E r \in Slots :
        /\ pc[r] = "events"
        /\ lastCall[r] = "failed"
        /\ ops[r] = <<"cleanup", "connect_failed">>

(***************************************************************************)
(* C10: the tool list a process_with_mcp run works with was asked of the   *)
(* provider on the session that run opened: once get_available_tools has   *)
(* returned, the run's session has sent list_tools.                        *)
(***************************************************************************)
C10_ToolListQueriedInEachSession ==
    mpc \in {"user_info", "first_decision", "decide", "call"} => queried

(***************************************************************************)
(* C11: a failure of a tool call inside the loop of process_with_mcp is    *)
(* not raised out of the loop: right after a call in which                 *)
(* session.call_tool raised, the work log ends with that call and an error *)
(* text as its result, and the run goes on with the next decision request  *)
(* while iterations remain (at the last iteration it returns the request   *)
(* built from the work log); it never ends with None.                      *)
(***************************************************************************)
C11_ToolFailureBecomesWorkLogText ==
    lastOutcome = "exception" =>
        /\ work_log # <<>>
        /\ Len(work_log) = iteration
        /\ Last(work_log).result = "Error"
        /\ IF iteration < max_iterations
           THEN mpc = "decide" /\ result = NoResult
           ELSE mpc = "returned" /\ result = BudgetRequest(work_log)

\* a second tool call failed and the loop is about to ask for the next decision
C11_Witness ==
    /\ lastOutcome = "exception"
    /\ mpc = "decide"
    /\ Len(work_log) = 2
    /\ work_log[1].result = "4"
    /\ work_log[2].result = "Error"

(***************************************************************************)
(* C12: the loop of process_with_mcp ends after at most max_iterations     *)
(* decide/execute cycles whatever the backend decides: the iteration       *)
(* counter and the number of executed tool calls never pass                *)
(* max_iterations, every executed call adds one to the counter, a run      *)
(* waiting for a decision or a tool result has iterations left and its     *)
(* next step is enabled, and a run that used all iterations has returned.  *)
(***************************************************************************)
C12_LoopEndsWithinMaxIterations ==
    /\ iteration <= max_iterations
    /\ Len(work_log) = iteration
    /\ mpc = "decide" => (iteration < max_iterations /\ ENABLED McpDecide)
    /\ mpc = "call" => (iteration < max_iterations /\ ENABLED McpCallTool)
    /\ iteration = max_iterations => mpc = "returned"

\* every decision named a tool and the run returned after max_iterations calls
C12_Witness ==
    /\ mpc = "returned"
    /\ iteration = max_iterations
    /\ Len(work_log) = max_iterations
    /\ \A i \in 1..Len(decisionLog) : decisionLog[i] # "none"

(***************************************************************************)
(* C13: with the tool add available and the backend's decisions, in order, *)
(* a call of add with 2 and 2 and then the done sentinel, the run that     *)
(* returned has called add once: its work log is the one entry             *)
(* add(2, 2) = "4", and it returned an answer-generation request whose     *)
(* user message renders that entry and the current answer "4".             *)
(***************************************************************************)
C13_AddThenDoneRunsAddOnce ==
    (mpc = "returned" /\ tools = {"add"} /\ "add" \in providerTools
        /\ decisionLog = <<"add", "none">>) =>
        /\ work_log = <<[tool |-> "add", args |-> <<2, 2>>, result |-> "4"]>>
        /\ result.kind = "messages"
        /\ result.user.steps = work_log
        /\ result.user.current = "4"

\* the texts call_llm_for_tools must treat as "done"
DonePayloads == {"empty", "sentinel", "fenced_sentinel", "tool_with_empty_list_argument",
                 "not_json", "bad_json", "no_tool_key"}

(***************************************************************************)
(* C14: a decision text that holds the done sentinel, that is not JSON, or *)
(* that is JSON without a "tool" key ends the run as done: no tool call is *)
(* taken from it and none is executed for it, and the run returns at once  *)
(* (None from the first decision, the answer-generation request built from *)
(* the work log as it was from a decision of the loop), not by an          *)
(* exception.                                                              *)
(***************************************************************************)
C14_DoneOrMalformedDecisionEndsLoop ==
    /\ \A p \in DonePayloads : call_llm_for_tools(p) = <<>>
    /\ payload \in DonePayloads =>
          /\ mpc = "returned"
          /\ current = NoDecision
          /\ Len(work_log) = iteration
          /\ Last(decisionLog) = "none"
          /\ result = IF Len(decisionLog) = 1 THEN ReturnsNone ELSE DoneRequest(work_log)

\* after one executed call the backend answered with JSON that has no "tool" key
C14_Witness ==
    /\ payload = "no_tool_key"
    /\ mpc = "returned"
    /\ Len(work_log) = 1
    /\ result = DoneRequest(work_log)

(***************************************************************************)
(* C15: when the tool list of the run is empty, process_with_mcp returns   *)
(* None at once: a run goes past get_available_tools only with a non-empty *)
(* list, and a run that returned with an empty list returned None, asked   *)
(* for no decision and called no tool.                                     *)
(***************************************************************************)
C15_EmptyToolListReturnsNone ==
    /\ mpc \in {"user_info", "first_decision", "decide", "call"} => tools # {}
    /\ (mpc = "returned" /\ tools = {}) =>
          /\ result = ReturnsNone
          /\ decisionLog = <<>>
          /\ work_log = <<>>
          /\ payload = "none"
          /\ lastOutcome = "none"

\* the provider was asked and served no tool
C15_Witness ==
    /\ mpc = "returned"
    /\ queried
    /\ tools = {}
    /\ providerTools = {}
    /\ result = ReturnsNone

\* a later run was handed the empty list an earlier run had cached
C15_WitnessCachedEmptyList ==
    /\ mpc = "returned"
    /\ ~queried
    /\ tools_cache = <<{}>>
    /\ tools = {}
    /\ runs = 2

(***************************************************************************)
(* C16: using up the iterations is not an error: a run that returned after *)
(* max_iterations executed calls returned an answer-generation request: a  *)
(* system message without tool definitions and a user message that renders *)
(* the max_iterations entries of the work log in the order of execution    *)
(* and asks for a summary; it did not return None.                         *)
(***************************************************************************)
C16_BudgetExhaustionReturnsRequest ==
    (mpc = "returned" /\ iteration = max_iterations) =>
        /\ Len(work_log) = max_iterations
        /\ result.kind = "messages"
        /\ result.system = "without_tools"
        /\ result.user.raw = FALSE
        /\ result.user.steps = work_log
        /\ result.user.current = work_log[max_iterations].result
        /\ result.user.closing = "summarize"

\* five executed calls, the last of them failed, the first returned the sum
C16_Witness ==
    /\ mpc = "returned"
    /\ iteration = max_iterations
    /\ \A i \in 1..Len(decisionLog) : decisionLog[i] # "none"
    /\ work_log[1].result = "4"
    /\ work_log[max_iterations].result = "Error"
    /\ result.user.steps = work_log

(***************************************************************************)
(* C17: chat_stream asks for the backend's health before the streaming     *)
(* request: a POST is only ever the second call, after a health check that *)
(* passed.  After a health check that failed the call has returned with    *)
(* the one frame "LLM service is not available": no other frame, no POST,  *)
(* nothing read.                                                           *)
(***************************************************************************)
C17_UnhealthyBackendGivesOneErrorFrame ==
    /\ \A i \in 1..Len(transport) :
          transport[i].call = "POST chat" =>
              (i = 2 /\ transport[1] = [call |-> "GET models", result |-> "ok"])
    /\ (transport # <<>> /\ transport[1].result = "failed") =>
          /\ spc = "returned"
          /\ transport = <<[call |-> "GET models", result |-> "failed"]>>
          /\ yielded = <<"error: LLM service is not available">>
          /\ read = <<>>
          /\ body = <<>>

\* the health check failed and the call returned
C17_Witness ==
    /\ spc = "returned"
    /\ history = "some"
    /\ transport = <<[call |-> "GET models", result |-> "failed"]>>
    /\ yielded = <<"error: LLM service is not available">>

\* the failures of the transport
TransportFailures == {"connect_error", "timeout", "status_not_200", "exception"}

(***************************************************************************)
(* C18: a connect error, a timeout or a status other than 200 of the       *)
(* streaming call, and an exception while the body is read, is the last    *)
(* thing the call asks of the transport: the call has returned, its last   *)
(* frame is the error frame, it is the only error frame, and there is no   *)
(* Done frame; when the POST itself failed the error frame is the only     *)
(* frame.                                                                  *)
(***************************************************************************)
C18_TransportErrorGivesOneErrorFrame ==
    \A i \in 1..Len(transport) :
        transport[i].result \in TransportFailures =>
            /\ i = Len(transport)
            /\ spc = "returned"
            /\ yielded # <<>>
            /\ Last(yielded) = "error: An error occurred"
            /\ Count(yielded, ErrorFrames) = 1
            /\ Count(yielded, {DoneFrame}) = 0
            /\ transport[i].call = "POST chat" => Len(yielded) = 1

\* the POST was answered with a status other than 200
C18_Witness ==
    /\ spc = "returned"
    /\ Len(transport) = 2
    /\ transport[2] = [call |-> "POST chat", result |-> "status_not_200"]
    /\ yielded = <<"error: An error occurred">>

\* the transport failed after two chunks
C18_WitnessMidStream ==
    /\ spc = "returned"
    /\ Len(transport) = 3
    /\ transport[3].result = "exception"
    /\ yielded = <<"c1", "c2", "error: An error occurred">>

(***************************************************************************)
(* C19: the frames chat_stream yields from the body are, in order, the     *)
(* chunks of the "data: " lines read so far, one frame for each line, the  *)
(* end marker as the Done frame; there is at most one Done frame, it is    *)
(* the last frame, and once it is yielded the call has returned, whatever  *)
(* is left of the body.                                                    *)
(***************************************************************************)
C19_DataUnitsReemittedInOrderThenDone ==
    LET units == SelectSeq(read, startswith_data)
        fromBody == SelectSeq(yielded, LAMBDA f : f \notin ErrorFrames)
    IN /\ Len(fromBody) = Len(units)
       /\ \A i \in 1..Len(units) : fromBody[i] = chunk_of(units[i])
       /\ Count(yielded, {DoneFrame}) <= 1
       /\ Has(yielded, {DoneFrame}) =>
             /\ Last(yielded) = DoneFrame
             /\ spc = "returned"
             /\ chunk_of(Last(read)) = "[DONE]"

\* a chunk, the end marker, and a line the upstream sent after it
C19_Witness ==
    /\ spc = "returned"
    /\ Len(read) = 2
    /\ read[1].payload = "c2"
    /\ body = <<[prefix |-> "data: ", payload |-> "c1"]>>
    /\ yielded = <<"c2", DoneFrame>>

\* two chunks around a skipped line, in the order of the body
C19_WitnessOrder ==
    /\ spc = "lines"
    /\ Len(read) = 3
    /\ ~startswith_data(read[2])
    /\ yielded = <<"c2", "c1">>

(***************************************************************************)
(* C20: prepare_conversation is idempotent: applied to its own result,     *)
(* with the same system prompt and the same token budget, it returns that  *)
(* result.                                                                 *)
(***************************************************************************)
C20_PrepareIsIdempotent ==
    cpc = "prepared_again" => prepared_again = prepared

\* whether a list of messages holds a user or an assistant message
HasExchange(msgs) == \E i \in 1..Len(msgs) : msgs[i].role # "system"

(***************************************************************************)
(* C21: prepare_conversation keeps the system message and never empties    *)
(* the history: when the history received holds a user or an assistant     *)
(* message, so does the result, even when the system message and that      *)
(* message exceed the token budget.                                        *)
(***************************************************************************)
C21_PrepareKeepsOneExchange ==
    cpc \in {"prepared", "prepared_again"} =>
        /\ prepared # <<>>
        /\ prepared[1] = Message("system", system_prompt)
        /\ HasExchange(conversation) => HasExchange(prepared)

\* the system message with the last message of the history, the least
\* prepare_conversation could return of a history with an exchange
LeastResult(msgs) ==
    LET kept == SelectSeq(msgs, LAMBDA msg : msg.role # "system") IN
    <<Message("system", system_prompt)>>
        \o (IF kept = <<>> THEN <<>> ELSE <<Last(kept)>>)

(***************************************************************************)
(* C22: the result of prepare_conversation starts with the system message  *)
(* and its token count is at most the budget, unless the system message    *)
(* with one message of the history alone exceeds the budget.               *)
(***************************************************************************)
C22_PreparedFitsBudget ==
    cpc \in {"prepared", "prepared_again"} =>
        /\ prepared # <<>>
        /\ prepared[1] = Message("system", system_prompt)
        /\ count_tokens(LeastResult(conversation)) <= max_allowed_tokens =>
              count_tokens(prepared) <= max_allowed_tokens

\* a history over the budget was cut down to what fits, an exchange included
C22_Witness ==
    /\ cpc = "prepared"
    /\ max_allowed_tokens = 3
    /\ Len(conversation) = 3
    /\ count_tokens(conversation) > 3
    /\ Len(prepared) = 2
    /\ count_tokens(prepared) = 3

(***************************************************************************)
(* C23: in the result of prepare_conversation no two adjacent messages     *)
(* both have the role user, whatever the history, one with a system        *)
(* message between two user messages included.                             *)
(***************************************************************************)
C23_NoAdjacentUserMessages ==
    cpc \in {"prepared", "prepared_again"} =>
        \A i \in 1..(Len(prepared) - 1) :
            ~(prepared[i].role = "user" /\ prepared[i + 1].role = "user")

(***************************************************************************)
(* C24: the result of prepare_conversation holds exactly one message of    *)
(* role system, at its first index, however many system messages the       *)
(* history holds and wherever they are.                                    *)
(***************************************************************************)
C24_ExactlyOneSystemMessageFirst ==
    cpc \in {"prepared", "prepared_again"} =>
        /\ prepared # <<>>
        /\ prepared[1] = Message("system", system_prompt)
        /\ \A i \in 2..Len(prepared) : prepared[i].role # "system"

\* a history with system messages at its second and third index
C24_Witness ==
    /\ cpc = "prepared"
    /\ Len(conversation) = 3
    /\ conversation[1].role = "user"
    /\ conversation[2].role = "system"
    /\ conversation[3].role = "system"
    /\ prepared = <<Message("system", system_prompt), conversation[1]>>

\* a history without a system message
C24_WitnessNoSystemMessage ==
    /\ cpc = "prepared"
    /\ Len(conversation) = 2
    /\ ~Has(conversation, {m \in Messages : m.role = "system"})
    /\ Len(prepared) = 3

\* the decisions of the run that named a tool, in order
NamedTools == SelectSeq(decisionLog, LAMBDA d : d # "none")

(***************************************************************************)
(* C25: every decision of a run that names a tool, the first one included, *)
(* is followed by one call of that tool whose result is appended to the    *)
(* work log before the next decision is requested: the tool-naming         *)
(* decisions are, in order, the entries of the work log, but for the last  *)
(* one while its call is in progress.                                      *)
(***************************************************************************)
C25_EveryToolDecisionIsExecuted ==
    /\ Len(NamedTools) = Len(work_log) + (IF mpc = "call" THEN 1 ELSE 0)
    /\ \A i \in 1..Len(work_log) :
          i <= Len(NamedTools) => work_log[i].tool = NamedTools[i]
    /\ mpc = "call" => current.name = Last(decisionLog)

(***************************************************************************)
(* C26: the work log only grows by appending: where the loop asks for a    *)
(* decision its length is the iteration counter, a step of a run leaves    *)
(* its entries as they are and adds at most one at the end, and the user   *)
(* message of a decision request of the loop is the raw prompt while the   *)
(* work log is empty and otherwise renders every entry in order, with the  *)
(* result of the last entry as the current answer.                         *)
(***************************************************************************)
C26_WorkLogAppendOnlyAndRendered ==
    /\ [](mpc = "decide" => Len(work_log) = iteration)
    /\ []((payload # "none" /\ Len(decisionLog) >= 2) =>
             /\ Len(work_log) = iteration
             /\ sent = IF iteration = 0
                       THEN UserMessage(TRUE, <<>>, "", "none")
                       ELSE UserMessage(FALSE, work_log, work_log[iteration].result,
                                        "ask_next_tool"))
    /\ [][\/ work_log' = work_log
          \/ /\ Len(work_log') = Len(work_log) + 1
             /\ SubSeq(work_log', 1, Len(work_log)) = work_log
          \/ /\ mpc' = "open"
             /\ work_log' = <<>>]_vars

\* the third decision request of the loop, after a result and an error
C26_Witness ==
    /\ payload # "none"
    /\ mpc = "call"
    /\ iteration = 2
    /\ work_log[1].result = "4"
    /\ work_log[2].result = "Error"
    /\ sent.steps = work_log
    /\ sent.current = "Error"

(***************************************************************************)
(* C27: a decision that names a tool absent from the tool list of the run  *)
(* ends the loop as done: no call is issued for a name outside the list    *)
(* and no entry of the work log carries such a name.                       *)
(***************************************************************************)
C27_UnknownToolEndsLoop ==
    /\ mpc = "call" => current.name \in tools
    /\ \A i \in 1..Len(work_log) : work_log[i].tool \in tools

(***************************************************************************)
(* C27 as amended: the loop does not compare the decided name with the     *)
(* tool list.  A decision of the loop that names an absent tool is         *)
(* executed like any other: the call is issued for that name, and what     *)
(* call_mcp_tool returns for it (the provider's text or the error text)    *)
(* is appended to the work log; the run then goes on as after any call.    *)
(***************************************************************************)
C27_UnknownToolIsCalledAndLogged ==
    /\ (payload = "tool_ghost" /\ Len(decisionLog) >= 2) =>
          /\ mpc = "call"
          /\ current = GhostDecision
          /\ current.name \notin tools
    /\ (lastOutcome # "none" /\ Last(work_log).tool = "ghost") =>
          /\ Last(work_log).result \in {"Unknown tool", "Error"}
          /\ Len(work_log) = iteration
          /\ IF iteration < max_iterations
             THEN mpc = "decide"
             ELSE mpc = "returned" /\ result = BudgetRequest(work_log)

\* the provider answered the call of the absent tool and the loop goes on
C27_Witness ==
    /\ lastOutcome = "content_unknown_tool"
    /\ mpc = "decide"
    /\ work_log = <<[tool |-> "ghost", args |-> <<>>, result |-> "Unknown tool"]>>
    /\ "ghost" \notin tools

(***************************************************************************)
(* C29: process_with_mcp returns an answer-generation request only when    *)
(* the run executed a tool call: a run that returned with an empty work    *)
(* log returned None.                                                      *)
(***************************************************************************)
C29_RequestOnlyAfterToolCall ==
    (mpc = "returned" /\ work_log = <<>>) => result = ReturnsNone

(***************************************************************************)
(* C28: the content frames of one stream_chat output come from one route:  *)
(* once the direct route has been entered, none of the frames yielded      *)
(* before it is a content frame of the agent route.                        *)
(***************************************************************************)
C28_DeltasComeFromOneRoute ==
    \A r \in Slots : direct[r] => ~Has(AgentPrefix(r), {"delta"})

\* the calls that have registered and not finished
InFlight == {c \in 1..MaxCalls : calls[c].at = "registered"}

(***************************************************************************)
(* C30: active_sessions has as many entries as there are calls that have   *)
(* registered and not finished: every call in flight has its entry, a      *)
(* call that finishes leaves the entries of the calls still in flight, and *)
(* with no call in flight active_sessions is empty.                        *)
(***************************************************************************)
C30_ActiveSessionsCountsCallsInFlight ==
    /\ Cardinality(active_sessions) = Cardinality(InFlight)
    /\ \A c \in InFlight : calls[c].session_id \in active_sessions
    /\ InFlight = {} => active_sessions = {}

=============================================================================
